---- MODULE Spec2Model ----
(***************************************************************************)
(* Asynchronous download-job queue and its polling endpoint.               *)
(*                                                                         *)
(* The program keeps its jobs in a BullMQ queue "downloads" on Redis       *)
(* (src/src/index.ts 908-928), processes them with a BullMQ worker of      *)
(* concurrency 5 running processDownloadJob (944-1022), creates them in    *)
(* POST /v1/download/initiate (534-562) and reports them in                *)
(* GET /v1/download/jobs/:jobId (723-769).                                 *)
(*                                                                         *)
(* The queue's own state is the state of the model: one hash per job       *)
(* (data, progress, returnvalue, attemptsMade, attemptsStarted,            *)
(* failedReason) and the lists and sets a job id is a member of (wait,     *)
(* active, delayed, completed, failed).  A job's state is not a field: it  *)
(* is derived from the membership, as job.getState() does.  Every queue    *)
(* command is one atomic step (a Redis script); every await of the         *)
(* program is a point where other steps interleave.                        *)
(*                                                                         *)
(* The worker keeps up to `concurrency` calls of processDownloadJob in     *)
(* flight.  The calls are anonymous: the slots of the model only name      *)
(* them, and the queue hands a job to the free slot of lowest number.      *)
(***************************************************************************)
EXTENDS Integers, Sequences, FiniteSets, TLC, Bags

\* ---------------------------------------------------------------- constants
Attempts == 3
Concurrency == 5
KeepCompleted == 100
KeepFailed == 50
AvailableModulus == 7
\* DownloadInitiateRequestSchema: the limits on file_ids and on each id.
MinFileId == 10000
MaxFileId == 100000000
MinFileIds == 1
MaxFileIds == 1000
\* The Worker options leave maxStalledCount at its default: a job found
\* stalled more often than this is failed.
MaxStalledCount == 1
\* defaultJobOptions.backoff.delay: the base of the exponential backoff, ms.
BackoffBase == 2000

\* ------------------------------------------------------------------- bounds
\* Jobs created in a behaviour of the queue alone (SpecQueue).
MaxJobs == 2
\* Jobs created in a behaviour of the queue with a polling client (Spec).
MaxPolledJobs == 1
\* Cap of the count of consecutive steps of the status route (SpecQuiet):
\* two polls of a job take four steps, the last of them after three.
MaxQuiet == 3
\* Jobs created in a behaviour of the initiate route (SpecInitiate).
MaxInitiated == 1
\* Jobs created in a behaviour checked for progress (SpecLive).
MaxLiveJobs == 1
\* Jobs created in a behaviour that fills the worker (SpecPool): one more
\* than the worker takes at a time.  No behaviour creates more jobs.
MaxPoolJobs == Concurrency + 1
\* Request ids the server generates in a behaviour of the request id
\* middleware (SpecHttp).
MaxGenerated == 3
\* Times the effect of the polling hook starts in a behaviour (SpecHook).
MaxEffects == 2
\* Requests of the polling hook that wait for their response at a time.
MaxInFlight == 2
\* Signals (SIGTERM, SIGINT) the process receives in a behaviour
\* (SpecShutdown).
MaxSignals == 2

\* The ids jobs are created under, in the order they are drawn.
JobIds == 1..MaxPoolJobs
\* The ids a client of the status route asks for.
PolledIds == 1..MaxJobs
\* The signals the process receives, in the order they arrive.
Signals == 1..MaxSignals
\* Mutant: the worker runs one call more than its concurrency.
SlotsOneMore == 1..(Concurrency + 1)

\* The calls of processDownloadJob the worker keeps in flight.
Slots == 1..Concurrency

\* The request bodies submitted: valid lists of file ids (each inside
\* 10000..100000000) with no, some and all files available.
FileIdLists == {<<70001>>, <<70000, 70001>>, <<70000, 70007, 70014>>}

\* The request bodies submitted in a behaviour of the queue alone.
QueueLists == {<<70001>>, <<70000, 70001>>}

\* ------------------------------------------------------------------- values
Null == [null |-> TRUE]
Absent == [absent |-> TRUE]
Undefined == [undefined |-> TRUE]

VARIABLES
  jobs,       \* job id -> the job's hash, or Absent
  created,    \* number of jobs created so far (ids are never reused)
  wait,       \* the wait list, oldest first
  active,     \* ids in the active list
  delayed,    \* ids in the delayed set (waiting for their backoff)
  completed,  \* ids in the completed set, oldest first
  failed,     \* ids in the failed set, oldest first
  slot,       \* worker slot -> the locals of its processDownloadJob call
  poller,     \* the client polling the status endpoint
  initiator,  \* the client of the initiate endpoint
  quiet,      \* steps of the status route since the last step of another kind
  http,       \* the last exchange with the root, health or error test route
  hook,       \* useJobPolling in the browser: its props, state, ref, timers
              \* and the requests it waits for
  backoff,    \* job id -> what is left of the backoff of its latest failed
              \* attempt and how long ago the attempt failed, in ms
  shutdown    \* the calls of the shutdown handler, what they have closed so
              \* far, in order, and how otelSDK.shutdown() settled

vars == <<jobs, created, wait, active, delayed, completed, failed, slot, poller,
          initiator, quiet, http, hook, backoff, shutdown>>

Range(s) == {s[k] : k \in 1..Len(s)}

\* ------------------------------------------------------------ pure functions
\* Mutant: the availability test looks at the parity of the id.
AvailableByParity(fileId) == fileId % 2 = 0

Available(fileId) == fileId % AvailableModulus = 0

\* The download URL of a file: the token is a fresh UUID, left out.
DownloadUrl(fileId) == <<"downloads", fileId>>

\* Math.floor(((i + 1) / totalFiles) * 100), i counted from 0.  The code
\* divides in floating point; for every totalFiles below 50 (the lists of
\* this model have at most 3 items) the result is the integer quotient.
Progress(i, totalFiles) == ((i + 1) * 100) \div totalFiles

BuildResult(totalFiles, successCount, failedCount, downloadUrls) ==
  [status       |-> IF successCount > 0 THEN "completed" ELSE "failed",
   totalFiles   |-> totalFiles,
   successCount |-> successCount,
   failedCount  |-> failedCount,
   downloadUrls |-> IF successCount > 0 THEN downloadUrls ELSE Undefined,
   message      |-> IF successCount > 0
                    THEN <<"Successfully processed", successCount, totalFiles>>
                    ELSE <<"All files failed to process", totalFiles>>]

\* job.getState(): where the id is found now.
GetState(j) ==
  IF j \in Range(completed) THEN "completed"
  ELSE IF j \in Range(failed) THEN "failed"
  ELSE IF j \in delayed THEN "delayed"
  ELSE IF j \in active THEN "active"
  ELSE IF j \in Range(wait) THEN "waiting"
  ELSE "unknown"

\* Mutant: the final branch of the mapping answers "processing".
MapStateElseProcessing(state) ==
  IF state = "completed" THEN "completed"
  ELSE IF state = "failed" THEN "failed"
  ELSE "processing"

\* Map BullMQ state to our status.
MapState(state) ==
  IF state = "completed" THEN "completed"
  ELSE IF state = "failed" THEN "failed"
  ELSE IF state = "active" THEN "processing"
  ELSE "queued"

\* The 200 response of the status route, from the job object read by
\* getJob and the state read by getState.
StatusResponse(jobId, job, state) ==
  LET status == MapState(state)
  IN [code       |-> 200,
      jobId      |-> jobId,
      status     |-> status,
      progress   |-> job.progress,
      totalFiles |-> Len(job.data),
      result     |-> IF status = "completed" \/ status = "failed"
                     THEN job.returnvalue ELSE Null]

\* Mutant: a missing job is answered like a job that waits.
NotFoundAsQueued(jobId) ==
  [code |-> 200, jobId |-> jobId, status |-> "queued", progress |-> 0,
   totalFiles |-> 0, result |-> Null]

\* The 404 response of the status route.
NotFoundResponse(jobId) ==
  [code |-> 404, jobId |-> jobId, status |-> "Not Found", progress |-> 0,
   totalFiles |-> 0, result |-> Null]

NoResponse ==
  [code |-> 0, jobId |-> 0, status |-> "none", progress |-> 0,
   totalFiles |-> 0, result |-> Null]

\* Mutant: the count reported is the last index of a list counted from 0.
InitiateResponseLastIndex(jobId, file_ids) ==
  [code |-> 200, jobId |-> jobId, status |-> "queued",
   totalFileIds |-> Len(file_ids) - 1]

\* The 200 response of the initiate route.
InitiateResponse(jobId, file_ids) ==
  [code |-> 200, jobId |-> jobId, status |-> "queued", totalFileIds |-> Len(file_ids)]

\* The 400 response to a body the request schema does not accept.
InvalidResponse ==
  [code |-> 400, jobId |-> 0, status |-> "Invalid request", totalFileIds |-> 0]

NoInitiateResponse ==
  [code |-> 0, jobId |-> 0, status |-> "none", totalFileIds |-> 0]

\* The initiate route after it has answered resp to a request with the
\* body file_ids.
Answered(file_ids, resp) ==
  [pc |-> "idle", jobId |-> 0, file_ids |-> file_ids, resp |-> resp]

\* A header value the server generates: the n-th result of
\* crypto.randomUUID().
Uuid(n) == [text |-> "uuid", n |-> n]

\* A header value only a client writes.
Text(t) == [text |-> t, n |-> 0]

\* Mutant: the middleware generates an id for every request.
RequestIdAlwaysFresh(sent, fresh) == fresh

\* Request id middleware: c.req.header("x-request-id") ?? crypto.randomUUID(),
\* where sent is the header of the request (Undefined if the request has
\* none) and fresh what crypto.randomUUID() would return.
RequestId(sent, fresh) == IF sent # Undefined THEN sent ELSE fresh

\* checkS3Health: TRUE without a bucket name (mock mode), else the outcome
\* of the HEAD request, where the error NotFound counts as reachable.
CheckS3Health(bucket, outcome) ==
  IF bucket = "" THEN TRUE
  ELSE IF outcome = "ok" THEN TRUE
  ELSE outcome = "NotFound"

\* Mutant: the health route answers 200 whatever the check returned.
HealthResponseAlways200(storageHealthy) ==
  [code |-> 200,
   status |-> IF storageHealthy THEN "healthy" ELSE "unhealthy",
   storage |-> IF storageHealthy THEN "ok" ELSE "error"]

\* The response of the health route.
HealthResponse(storageHealthy) ==
  [code |-> IF storageHealthy THEN 200 ELSE 503,
   status |-> IF storageHealthy THEN "healthy" ELSE "unhealthy",
   storage |-> IF storageHealthy THEN "ok" ELSE "error"]

\* The response of the root route.
RootResponse == [code |-> 200, status |-> "Hello Hono!", storage |-> "none"]

\* The response of the error test route.
ErrorTestResponse ==
  [code |-> 500, status |-> "Internal Server Error", storage |-> "none"]

\* An exchange: the route, the x-request-id header of the request, the
\* storage the health check met, the x-request-id header of the response,
\* the response, and the ids generated so far.
Exchange(route, sent, bucket, outcome, header, resp, generated) ==
  [route |-> route, sent |-> sent, bucket |-> bucket, outcome |-> outcome,
   header |-> header, resp |-> resp, generated |-> generated]

NoExchange ==
  Exchange("none", Undefined, "", "ok", Undefined,
           [code |-> 0, status |-> "none", storage |-> "none"], 0)

\* Mutant: the schema without the upper limit on the number of ids.
ValidBodyAnyLength(file_ids) ==
  /\ Len(file_ids) >= MinFileIds
  /\ Range(file_ids) \subseteq MinFileId..MaxFileId

\* DownloadInitiateRequestSchema: whether c.req.valid("json") accepts a body
\* whose file_ids is this list of integers.
ValidBody(file_ids) ==
  /\ Len(file_ids) >= MinFileIds
  /\ Len(file_ids) <= MaxFileIds
  /\ Range(file_ids) \subseteq MinFileId..MaxFileId

\* ----------------------------------------------------------- queue commands
\* queue.add: the hash of a new job.
NewJob(file_ids) ==
  [data |-> file_ids, progress |-> 0, returnvalue |-> Null,
   attemptsMade |-> 0, attemptsStarted |-> 0, stalledCounter |-> 0,
   failedReason |-> Null]

IdleSlot == [pc |-> "idle", job |-> 0, token |-> 0, i |-> 0, successCount |-> 0,
             failedCount |-> 0, downloadUrls |-> <<>>]

\* Mutant: a later attempt starts with the count of the one before.
StartSlotKeepsCount(j, token) ==
  [pc |-> "update", job |-> j, token |-> token, i |-> 0,
   successCount |-> IF token > 1 THEN 1 ELSE 0,
   failedCount |-> 0, downloadUrls |-> <<>>]

\* The locals of processDownloadJob when it starts on job j, and the token
\* of the lock the worker took on the job for this call.
StartSlot(j, token) ==
  [pc |-> "update", job |-> j, token |-> token, i |-> 0, successCount |-> 0,
   failedCount |-> 0, downloadUrls |-> <<>>]

\* Whether the call in slot sl holds the lock of its job: the job is in the
\* active list and its lock is the one taken for this call.  A job is locked
\* anew each time it is taken, so the count of the times it was taken
\* stands for the token of its lock.
Owns(sl, activeIds, hashes) ==
  /\ sl.job \in activeIds
  /\ sl.token = hashes[sl.job].attemptsStarted

\* The fields of the job object the status route reads.
JobObject(hash) ==
  [data |-> hash.data, progress |-> hash.progress, returnvalue |-> hash.returnvalue]

\* Mutant: the job taken stays in the wait list.
WaitAfterClaimKept(w) == w

\* The wait list after a worker has taken its oldest job.
WaitAfterClaim(w) == Tail(w)

\* Mutant: the attempt that just failed is not counted.
RetryAllowedOnceMore(attemptsMade) == attemptsMade < Attempts

\* Whether a job that made attemptsMade attempts before this one is retried.
RetryAllowed(attemptsMade) == attemptsMade + 1 < Attempts

\* Mutant: a retry is scheduled even when the attempts are used up.
DelayedAfterThrowAlways(d, j, attemptsMade) == d \cup {j}

\* The delayed set after an attempt of job j has thrown.
DelayedAfterThrow(d, j, attemptsMade) ==
  IF RetryAllowed(attemptsMade) THEN d \cup {j} ELSE d

\* Mutant: the trimming leaves one job more than the count.
RetainOneMore(finished, gone, count) ==
  LET young == SubSeq(finished, gone + 1, Len(finished))
  IN IF Len(young) > count + 1
     THEN SubSeq(young, Len(young) - count, Len(young))
     ELSE young

\* removeOnComplete / removeOnFail: the finished set after `gone` of its
\* oldest members passed the maximum age, trimmed to the newest `count`.
Retain(finished, gone, count) ==
  LET young == SubSeq(finished, gone + 1, Len(finished))
  IN IF Len(young) > count
     THEN SubSeq(young, Len(young) - count + 1, Len(young))
     ELSE young

\* The hashes after the jobs dropped from a finished set are deleted.
DeleteDropped(js, before, after) ==
  [k \in JobIds |-> IF k \in Range(before) /\ k \notin Range(after)
                    THEN Absent ELSE js[k]]

\* --------------------------------------------------------------------- Init
Init ==
  /\ jobs = [j \in JobIds |-> Absent]
  /\ created = 0
  /\ wait = <<>>
  /\ active = {}
  /\ delayed = {}
  /\ completed = <<>>
  /\ failed = <<>>
  /\ slot = [s \in Slots |-> IdleSlot]
  /\ poller = [pc |-> "idle", jobId |-> 0, job |-> Absent, resp |-> NoResponse]
  /\ initiator = Answered(<<>>, NoInitiateResponse)
  /\ quiet = 0
  /\ http = NoExchange
  /\ hook = [jobId |-> 0, effects |-> 0, intervalRef |-> 0, timers |-> {},
             inflight |-> EmptyBag, data |-> Null, isLoading |-> FALSE,
             error |-> Null, stopped |-> {}]
  /\ backoff = [j \in JobIds |-> [left |-> 0, waited |-> 0]]
  /\ shutdown = [chain |-> [c \in Signals |-> 0], log |-> <<>>, otel |-> "none"]

\* ------------------------------------------------------------------ actions
\* POST /v1/download/initiate with a valid body, up to its await: a fresh
\* id is drawn and downloadQueue.add puts the job in the wait list.
InitiateAdd(file_ids) ==
  /\ initiator.pc = "idle"
  /\ ValidBody(file_ids)
  /\ created + 1 \in JobIds
  /\ LET jobId == created + 1
     IN /\ jobs' = [jobs EXCEPT ![jobId] = NewJob(file_ids)]
        /\ wait' = Append(wait, jobId)
        /\ initiator' = [initiator EXCEPT !.pc = "added", !.jobId = jobId,
                                         !.file_ids = file_ids]
  /\ created' = created + 1
  /\ UNCHANGED <<active, delayed, completed, failed, slot, poller>>

\* Mutant: the route waits until the job has finished.
MayRespondWhenFinished(jobId) == GetState(jobId) \in {"completed", "failed"}

\* What the initiate route waits for after downloadQueue.add has resolved,
\* before it answers: nothing.
MayRespond(jobId) == TRUE

\* POST /v1/download/initiate after its await: the 200 response.
InitiateRespond ==
  /\ initiator.pc = "added"
  /\ MayRespond(initiator.jobId)
  /\ initiator' = Answered(initiator.file_ids,
                          InitiateResponse(initiator.jobId, initiator.file_ids))
  /\ UNCHANGED <<jobs, created, wait, active, delayed, completed, failed, slot, poller>>

\* POST /v1/download/initiate with a body the schema does not accept: the
\* validator answers 400 and the handler does not run.
Reject(file_ids) ==
  /\ initiator.pc = "idle"
  /\ ~ValidBody(file_ids)
  /\ initiator' = Answered(file_ids, InvalidResponse)
  /\ UNCHANGED <<jobs, created, wait, active, delayed, completed, failed, slot, poller>>

\* POST /v1/download/initiate with a valid body, from request to response:
\* InitiateAdd followed at once by InitiateRespond.
Initiate(file_ids) ==
  /\ initiator.pc = "idle"
  /\ ValidBody(file_ids)
  /\ created + 1 \in JobIds
  /\ LET jobId == created + 1
     IN /\ jobs' = [jobs EXCEPT ![jobId] = NewJob(file_ids)]
        /\ wait' = Append(wait, jobId)
        /\ initiator' = Answered(file_ids, InitiateResponse(jobId, file_ids))
  /\ created' = created + 1
  /\ UNCHANGED <<active, delayed, completed, failed, slot, poller>>

\* POST /v1/download/initiate with a valid body when crypto.randomUUID()
\* returns the id of a job the queue still holds: downloadQueue.add finds
\* the id taken, changes nothing and resolves without an error, and the
\* handler answers 200 as for a new job.
InitiateExisting(file_ids, jobId) ==
  /\ initiator.pc = "idle"
  /\ ValidBody(file_ids)
  /\ jobId \in JobIds /\ jobs[jobId] # Absent
  /\ initiator' = Answered(file_ids, InitiateResponse(jobId, file_ids))
  /\ UNCHANGED <<jobs, created, wait, active, delayed, completed, failed, slot, poller>>

\* Mutant: a free worker slot takes the newest waiting job.
ClaimNewest(s) ==
  /\ slot[s].pc = "idle"
  /\ \A t \in 1..(s - 1) : slot[t].pc # "idle"
  /\ wait # <<>>
  /\ LET j == wait[Len(wait)]
     IN /\ wait' = SubSeq(wait, 1, Len(wait) - 1)
        /\ active' = active \cup {j}
        /\ jobs' = [jobs EXCEPT ![j].attemptsStarted = @ + 1]
        /\ slot' = [slot EXCEPT ![s] = StartSlot(j, jobs[j].attemptsStarted + 1)]
  /\ UNCHANGED <<created, delayed, completed, failed, poller, initiator>>

\* A free worker slot takes the oldest waiting job.
Claim(s) ==
  /\ slot[s].pc = "idle"
  /\ \A t \in 1..(s - 1) : slot[t].pc # "idle"
  /\ wait # <<>>
  /\ LET j == Head(wait)
     IN /\ wait' = WaitAfterClaim(wait)
        /\ active' = active \cup {j}
        /\ jobs' = [jobs EXCEPT ![j].attemptsStarted = @ + 1]
        /\ slot' = [slot EXCEPT ![s] = StartSlot(j, jobs[j].attemptsStarted + 1)]
  /\ UNCHANGED <<created, delayed, completed, failed, poller, initiator>>

\* await job.updateProgress(progress): the progress of item i is published
\* before the item is checked.
UpdateProgress(s) ==
  /\ slot[s].pc = "update"
  /\ LET j == slot[s].job
     IN jobs' = [jobs EXCEPT ![j].progress = Progress(slot[s].i, Len(jobs[j].data))]
  /\ slot' = [slot EXCEPT ![s].pc = "check"]
  /\ UNCHANGED <<created, wait, active, delayed, completed, failed, poller, initiator>>

\* Mutant: an unavailable file is not counted.
CheckedSlotUncounted(sl, fileId, totalFiles) ==
  [pc           |-> IF sl.i + 1 < totalFiles THEN "update" ELSE "return",
   job          |-> sl.job,
   token        |-> sl.token,
   i            |-> sl.i + 1,
   successCount |-> IF Available(fileId) THEN sl.successCount + 1 ELSE sl.successCount,
   failedCount  |-> sl.failedCount,
   downloadUrls |-> IF Available(fileId)
                    THEN Append(sl.downloadUrls, DownloadUrl(fileId))
                    ELSE sl.downloadUrls]

\* Mutant: an unavailable file is checked again until it is available.
CheckedSlotWaitsForFile(sl, fileId, totalFiles) ==
  [pc           |-> IF ~Available(fileId) \/ sl.i + 1 < totalFiles
                    THEN "update" ELSE "return",
   job          |-> sl.job,
   token        |-> sl.token,
   i            |-> IF Available(fileId) THEN sl.i + 1 ELSE sl.i,
   successCount |-> IF Available(fileId) THEN sl.successCount + 1 ELSE sl.successCount,
   failedCount  |-> sl.failedCount,
   downloadUrls |-> IF Available(fileId)
                    THEN Append(sl.downloadUrls, DownloadUrl(fileId))
                    ELSE sl.downloadUrls]

\* After the sleep: the availability of item i is decided and counted, and
\* the loop goes on to the next item or leaves.
CheckedSlot(sl, fileId, totalFiles) ==
  [pc           |-> IF sl.i + 1 < totalFiles THEN "update" ELSE "return",
   job          |-> sl.job,
   token        |-> sl.token,
   i            |-> sl.i + 1,
   successCount |-> IF Available(fileId) THEN sl.successCount + 1 ELSE sl.successCount,
   failedCount  |-> IF Available(fileId) THEN sl.failedCount ELSE sl.failedCount + 1,
   downloadUrls |-> IF Available(fileId)
                    THEN Append(sl.downloadUrls, DownloadUrl(fileId))
                    ELSE sl.downloadUrls]

\* Mutant: an unavailable file makes processDownloadJob throw.
CheckFileUnavailableThrows(s) ==
  /\ slot[s].pc = "check"
  /\ LET j == slot[s].job
         file_ids == jobs[j].data
         fileId == file_ids[slot[s].i + 1]
     IN IF Available(fileId)
        THEN /\ slot' = [slot EXCEPT ![s] = CheckedSlot(@, fileId, Len(file_ids))]
             /\ UNCHANGED <<jobs, active, delayed, failed>>
        ELSE /\ slot' = [slot EXCEPT ![s] = IdleSlot]
             /\ jobs' = [jobs EXCEPT ![j].attemptsMade = @ + 1,
                                     ![j].failedReason = [message |-> "file unavailable"]]
             /\ active' = active \ {j}
             /\ delayed' = DelayedAfterThrow(delayed, j, jobs[j].attemptsMade)
             /\ failed' = IF RetryAllowed(jobs[j].attemptsMade)
                          THEN failed ELSE Append(failed, j)
  /\ UNCHANGED <<created, wait, completed, poller, initiator>>

CheckFile(s) ==
  /\ slot[s].pc = "check"
  /\ LET file_ids == jobs[slot[s].job].data
     IN slot' = [slot EXCEPT ![s] = CheckedSlot(@, file_ids[@.i + 1], Len(file_ids))]
  /\ UNCHANGED <<jobs, created, wait, active, delayed, completed, failed, poller, initiator>>

\* processDownloadJob returns its result: the worker moves the job to
\* completed with that return value, trims the completed set and frees the
\* slot.
Return(s) ==
  /\ slot[s].pc = "return"
  /\ Owns(slot[s], active, jobs)
  /\ LET j == slot[s].job
         result == BuildResult(Len(jobs[j].data), slot[s].successCount,
                               slot[s].failedCount, slot[s].downloadUrls)
     IN \E gone \in 0..Len(completed) :
          LET kept == Retain(Append(completed, j), gone, KeepCompleted)
          IN /\ completed' = kept
             /\ jobs' = DeleteDropped(
                          [jobs EXCEPT ![j].returnvalue = result,
                                       ![j].attemptsMade = @ + 1],
                          completed, kept)
             /\ active' = active \ {j}
  /\ slot' = [slot EXCEPT ![s] = IdleSlot]
  /\ UNCHANGED <<created, wait, delayed, failed, poller, initiator>>

\* processDownloadJob returns its result in a call that no longer holds
\* the lock of its job: the worker's move to completed is rejected, nothing
\* is written and the slot is free.
ReturnRejected(s) ==
  /\ slot[s].pc = "return"
  /\ ~Owns(slot[s], active, jobs)
  /\ slot' = [slot EXCEPT ![s] = IdleSlot]
  /\ UNCHANGED <<jobs, created, wait, active, delayed, completed, failed, poller,
                 initiator>>

\* The lock of an active job runs out while the call that took it is still
\* running (the worker could not renew it in time), and the stalled check
\* moves the job as it moves any active job without a lock: to the front of
\* the wait list, or to failed when it has stalled more than MaxStalledCount
\* times.  The call goes on.  No failed job is old enough to be removed.
LockExpires(j) ==
  /\ j \in active
  /\ \E s \in Slots : slot[s].job = j /\ Owns(slot[s], active, jobs)
  /\ active' = active \ {j}
  /\ LET stalled == [jobs EXCEPT ![j].stalledCounter = @ + 1]
     IN IF stalled[j].stalledCounter > MaxStalledCount
        THEN LET kept == Retain(Append(failed, j), 0, KeepFailed)
             IN /\ failed' = kept
                /\ jobs' = DeleteDropped(
                     [stalled EXCEPT ![j].failedReason =
                        [message |-> "job stalled more than allowable limit"]],
                     failed, kept)
                /\ UNCHANGED wait
        ELSE /\ jobs' = stalled
             /\ wait' = <<j>> \o wait
             /\ UNCHANGED failed
  /\ UNCHANGED <<created, delayed, completed, slot, poller, initiator>>

\* job.updateProgress rejects (a Redis error): processDownloadJob throws, and
\* the worker moves the job to delayed for a retry, or to failed when the
\* attempts are used up.
UpdateProgressThrows(s) ==
  /\ slot[s].pc = "update"
  /\ LET j == slot[s].job
         thrown == [jobs EXCEPT ![j].attemptsMade = @ + 1,
                                ![j].failedReason = [message |-> "updateProgress rejected"]]
     IN /\ active' = active \ {j}
        /\ delayed' = DelayedAfterThrow(delayed, j, jobs[j].attemptsMade)
        /\ IF RetryAllowed(jobs[j].attemptsMade)
           THEN /\ jobs' = thrown
                /\ UNCHANGED failed
           ELSE \E gone \in 0..Len(failed) :
                  LET kept == Retain(Append(failed, j), gone, KeepFailed)
                  IN /\ failed' = kept
                     /\ jobs' = DeleteDropped(thrown, failed, kept)
  /\ slot' = [slot EXCEPT ![s] = IdleSlot]
  /\ UNCHANGED <<created, wait, completed, poller, initiator>>

\* The backoff of a delayed job has elapsed: it is queued again.
Promote(j) ==
  /\ j \in delayed
  /\ delayed' = delayed \ {j}
  /\ wait' = Append(wait, j)
  /\ UNCHANGED <<jobs, created, active, completed, failed, slot, poller, initiator>>

\* GET /v1/download/jobs/:jobId, first await: downloadQueue.getJob(jobId)
\* reads the job's hash; a missing job is answered 404 at once.
PollGetJob(jobId) ==
  /\ poller.pc = "idle"
  /\ IF jobs[jobId] = Absent
     THEN poller' = [poller EXCEPT !.jobId = jobId, !.job = Absent,
                                   !.resp = NotFoundResponse(jobId)]
     ELSE poller' = [poller EXCEPT !.pc = "gotJob", !.jobId = jobId,
                                   !.job = JobObject(jobs[jobId])]
  /\ UNCHANGED <<jobs, created, wait, active, delayed, completed, failed, slot, initiator>>

\* Mutant: a job reported finished is removed once its result is delivered.
PollRespondAndRemove ==
  /\ poller.pc = "gotJob"
  /\ LET j == poller.jobId
         state == GetState(j)
     IN /\ poller' = [poller EXCEPT !.pc = "idle", !.job = Absent,
                         !.resp = StatusResponse(j, poller.job, state)]
        /\ jobs' = IF state = "completed" \/ state = "failed"
                   THEN [jobs EXCEPT ![j] = Absent] ELSE jobs
        /\ completed' = IF state = "completed"
                        THEN SelectSeq(completed, LAMBDA k : k # j) ELSE completed
        /\ failed' = IF state = "failed"
                     THEN SelectSeq(failed, LAMBDA k : k # j) ELSE failed
  /\ UNCHANGED <<created, wait, active, delayed, slot, initiator>>

\* Second await: job.getState() reads the state as it is now, and the
\* response is built from it and from the job object read before.
PollRespond ==
  /\ poller.pc = "gotJob"
  /\ poller' = [poller EXCEPT !.pc = "idle", !.job = Absent,
                  !.resp = StatusResponse(poller.jobId, poller.job,
                                          GetState(poller.jobId))]
  /\ UNCHANGED <<jobs, created, wait, active, delayed, completed, failed, slot, initiator>>

\* Mutant: the jobs are kept in the memory of the server process.
RestartLosingJobs ==
  /\ slot' = [s \in Slots |-> IdleSlot]
  /\ poller' = [poller EXCEPT !.pc = "idle", !.job = Absent]
  /\ initiator' = [initiator EXCEPT !.pc = "idle", !.jobId = 0]
  /\ jobs' = [j \in JobIds |-> Absent]
  /\ wait' = <<>>
  /\ active' = {}
  /\ delayed' = {}
  /\ completed' = <<>>
  /\ failed' = <<>>
  /\ UNCHANGED created

\* The server process stops while work is under way and is started again:
\* the calls of processDownloadJob and the requests being handled are gone,
\* and everything the queue keeps in Redis is as it was.
Restart ==
  /\ slot' = [s \in Slots |-> IdleSlot]
  /\ poller' = [poller EXCEPT !.pc = "idle", !.job = Absent]
  /\ initiator' = [initiator EXCEPT !.pc = "idle", !.jobId = 0]
  /\ UNCHANGED <<jobs, created, wait, active, delayed, completed, failed>>

\* The worker finds an active job that no call of processDownloadJob holds
\* (its lock has run out): the job goes back to the front of the wait list,
\* or to failed when it has stalled more than MaxStalledCount times.
RecoverStalled(j) ==
  /\ j \in active
  /\ \A s \in Slots : slot[s].job # j
  /\ active' = active \ {j}
  /\ LET stalled == [jobs EXCEPT ![j].stalledCounter = @ + 1]
     IN IF stalled[j].stalledCounter > MaxStalledCount
        THEN \E gone \in 0..Len(failed) :
               LET kept == Retain(Append(failed, j), gone, KeepFailed)
               IN /\ failed' = kept
                  /\ jobs' = DeleteDropped(
                       [stalled EXCEPT ![j].failedReason =
                          [message |-> "job stalled more than allowable limit"]],
                       failed, kept)
                  /\ UNCHANGED wait
        ELSE /\ jobs' = stalled
             /\ wait' = <<j>> \o wait
             /\ UNCHANGED failed
  /\ UNCHANGED <<created, delayed, completed, slot, poller, initiator>>

\* A request to a route that does not use the queue, answered at once:
\* the request id middleware sets the x-request-id header of the response
\* to the header of the request, or to a new UUID if there is none, and the
\* handler answers resp.
Served(route, sent, bucket, outcome, resp) ==
  /\ sent = Undefined => http.generated < MaxGenerated
  /\ LET generated == IF sent = Undefined THEN http.generated + 1
                      ELSE http.generated
         requestId == RequestId(sent, Uuid(http.generated + 1))
     IN http' = Exchange(route, sent, bucket, outcome, requestId, resp, generated)
  /\ UNCHANGED <<jobs, created, wait, active, delayed, completed, failed, slot,
                 poller, initiator, hook, backoff, shutdown>>

\* GET /
Root(sent) == Served("/", sent, "", "ok", RootResponse)

\* GET /health with the bucket name the process is configured with and
\* the outcome of the HEAD request.
Health(sent, bucket, outcome) ==
  Served("/health", sent, bucket, outcome,
         HealthResponse(CheckS3Health(bucket, outcome)))

\* POST /v1/error/test
ErrorTest(sent) == Served("/v1/error/test", sent, "", "ok", ErrorTestResponse)

\* sanitizeS3Key: the key of a file, downloads/<floor(abs(fileId))>.zip.
SanitizeS3Key(fileId) ==
  <<"downloads", IF fileId < 0 THEN 0 - fileId ELSE fileId>>

\* checkS3Availability: without a bucket name (mock mode) a file is
\* available when its id is a multiple of 7; with a bucket name it is
\* available when the HEAD request for its key resolves, and unavailable
\* when the request rejects, whatever the error. The size is left out.
CheckS3Availability(bucket, outcome, fileId) ==
  IF bucket = ""
  THEN [available |-> fileId % AvailableModulus = 0,
        s3Key |-> IF fileId % AvailableModulus = 0
                  THEN SanitizeS3Key(fileId) ELSE Null]
  ELSE IF outcome = "ok"
       THEN [available |-> TRUE, s3Key |-> SanitizeS3Key(fileId)]
       ELSE [available |-> FALSE, s3Key |-> Null]

\* The response of the check route: the file id and the result of
\* checkS3Availability, with status 200.
CheckResponse(file_id, s3Result) ==
  [code |-> 200, status |-> "checked", storage |-> "none",
   file_id |-> file_id, available |-> s3Result.available,
   s3Key |-> s3Result.s3Key]

\* POST /v1/download/check {file_id}, without sentry_test, with the bucket
\* name the process is configured with and the outcome of the HEAD
\* request.
Check(sent, bucket, outcome, file_id) ==
  Served("/v1/download/check", sent, bucket, outcome,
         CheckResponse(file_id, CheckS3Availability(bucket, outcome, file_id)))

\* A step that is not one of the status route.
Reset == quiet' = 0

\* ----------------------------------------------------------- the shutdown
\* Mutant: shutdownQueue closes the queue before the worker.
ShutdownStepsQueueFirst ==
  <<"server", "otel", "queue", "worker", "redis", "s3">>

\* What a call of the shutdown handler does, in the order of the code:
\* server.close, in its callback otelSDK.shutdown(), in the finally of that
\* promise shutdownQueue (await downloadWorker.close(), await
\* downloadQueue.close(), await connection.quit()) and then
\* s3Client.destroy().
ShutdownSteps ==
  <<"server", "otel", "worker", "queue", "redis", "s3">>

\* The positions of a call that has returned and of one that has stopped at
\* an await that rejected.
Done == Len(ShutdownSteps) + 1
Aborted == Len(ShutdownSteps) + 2

\* log with what is closed now added, unless it was closed before.
Closed(log, what) == IF what \in Range(log) THEN log ELSE Append(log, what)

\* A signal arrives: process.on calls shutdown(signal), which calls
\* server.close with the callback.
Signal(c) ==
  /\ shutdown.chain[c] = 0
  /\ \A b \in Signals : b < c => shutdown.chain[b] # 0
  /\ shutdown' = [shutdown EXCEPT !.chain[c] = 1]
  /\ UNCHANGED <<jobs, created, wait, active, delayed, completed, failed, slot,
                 poller, initiator, http, hook, backoff>>

\* The step a call waits for settles. The callback of server.close runs
\* whether the server was open or not; the promise of otelSDK.shutdown()
\* reaches its finally resolved or rejected; an await of shutdownQueue that
\* rejects ends the call, and s3Client.destroy() is synchronous.
Settle(c, outcome) ==
  /\ shutdown.chain[c] \in 1..Len(ShutdownSteps)
  /\ LET what == ShutdownSteps[shutdown.chain[c]]
     IN IF what \in {"server", "s3"}
        THEN /\ outcome = "resolved"
             /\ shutdown' = [shutdown EXCEPT !.chain[c] = @ + 1,
                                             !.log = Closed(@, what)]
        ELSE IF what = "otel"
        THEN shutdown' = [shutdown EXCEPT !.chain[c] = @ + 1,
                                          !.log = Closed(@, what),
                                          !.otel = IF @ = "none" THEN outcome ELSE @]
        ELSE IF outcome = "resolved"
        THEN shutdown' = [shutdown EXCEPT !.chain[c] = @ + 1,
                                          !.log = Closed(@, what)]
        ELSE shutdown' = [shutdown EXCEPT !.chain[c] = Aborted]
  /\ UNCHANGED <<jobs, created, wait, active, delayed, completed, failed, slot,
                 poller, initiator, http, hook, backoff>>

\* ------------------------------------------------------------ the backoff
\* Mutant: every retry waits for the base delay.
BackoffDelayFixed(attemptsMade) == BackoffBase

\* The delay BullMQ's exponential backoff gives a job that has failed
\* attemptsMade times, ms: the base, doubled with each failed attempt.
BackoffDelay(attemptsMade) == BackoffBase * 2^(attemptsMade - 1)

\* The longest delay a job of this queue is given.
LongestDelay == BackoffBase * 2^(Attempts - 2)

\* The time that passes in one step of the clock, ms.
ClockStep == BackoffBase \div 4

\* A step of the queue or the worker in which no time passes and no
\* backoff starts.
Instant == Reset /\ UNCHANGED <<http, hook, backoff, shutdown>>

\* job.updateProgress rejects and the attempt fails: a job that goes to
\* delayed is given the time of its backoff.
ThrowsAndBacksOff(s) ==
  /\ UpdateProgressThrows(s)
  /\ LET j == slot[s].job
     IN backoff' = IF j \in delayed'
                   THEN [backoff EXCEPT ![j] =
                           [left |-> BackoffDelay(jobs'[j].attemptsMade),
                            waited |-> 0]]
                   ELSE backoff
  /\ UNCHANGED <<http, hook, shutdown>>

\* Time passes while a delayed job waits for its backoff.
Elapse ==
  /\ \E j \in delayed : backoff[j].left > 0 \/ backoff[j].waited < LongestDelay
  /\ backoff' = [j \in JobIds |->
                  IF j \in delayed
                  THEN [left |-> IF backoff[j].left > ClockStep
                                 THEN backoff[j].left - ClockStep ELSE 0,
                        waited |-> IF backoff[j].waited + ClockStep < LongestDelay
                                   THEN backoff[j].waited + ClockStep
                                   ELSE LongestDelay]
                  ELSE backoff[j]]
  /\ UNCHANGED <<jobs, created, wait, active, delayed, completed, failed, slot,
                 poller, initiator, http, hook, shutdown>>

\* The queue moves a delayed job to the wait list when its backoff is over.
PromoteDue(j) ==
  /\ j \in delayed
  /\ backoff[j].left = 0
  /\ Promote(j)
  /\ UNCHANGED <<http, hook, backoff, shutdown>>

\* ------------------------------------------------------- the polling hook
\* The requests the hook waits for, without one request r of them.  They
\* are kept as a bag: the responses come in any order.
Without(inflight, r) == inflight (-) SetToBag({r})

\* fetchJobStatus up to its first await, called by the effect or the timer
\* number effect for the job jobId: the request is on its way.
Fetching(inflight, jobId, effect) ==
  inflight (+) SetToBag({[jobId |-> jobId, effect |-> effect, resp |-> NoResponse]})

\* Mutant: clearInterval leaves the timer running.
ClearedNothing(timers, intervalRef) == timers

\* The browser's timers after clearInterval(intervalRef.current), which
\* the code calls only if the ref is not null.
Cleared(timers, intervalRef) == {t \in timers : t.id # intervalRef}

\* The component renders with another jobId: React runs the cleanup of the
\* effect, and then the effect, which returns at once without a jobId and
\* else sets isLoading, fetches and starts the timer.
SetJobId(jobId) ==
  /\ jobId # hook.jobId
  /\ IF jobId = 0
     THEN hook' = [hook EXCEPT !.jobId = 0, !.intervalRef = 0,
                               !.timers = Cleared(hook.timers, hook.intervalRef)]
     ELSE /\ hook.effects < MaxEffects
          /\ BagCardinality(hook.inflight) < MaxInFlight
          /\ LET effect == hook.effects + 1
             IN hook' = [hook EXCEPT
                   !.jobId = jobId, !.effects = effect, !.isLoading = TRUE,
                   !.inflight = Fetching(hook.inflight, jobId, effect),
                   !.intervalRef = effect,
                   !.timers = Cleared(hook.timers, hook.intervalRef)
                                \cup {[id |-> effect, jobId |-> jobId]}]
  /\ UNCHANGED <<jobs, created, wait, active, delayed, completed, failed, slot,
                 poller, initiator, http, backoff, shutdown>>

\* A timer of the browser fires and calls the fetchJobStatus of its effect.
Tick(t) ==
  /\ t \in hook.timers
  /\ BagCardinality(hook.inflight) < MaxInFlight
  /\ hook' = [hook EXCEPT !.inflight = Fetching(hook.inflight, t.jobId, t.id)]
  /\ UNCHANGED <<jobs, created, wait, active, delayed, completed, failed, slot,
                 poller, initiator, http, backoff, shutdown>>

\* The status route answers the request r the hook waits for.
Serve(r) ==
  /\ BagIn(r, hook.inflight)
  /\ r.resp = NoResponse
  /\ LET jobId == r.jobId
         resp == IF jobs[jobId] = Absent THEN NotFoundResponse(jobId)
                 ELSE StatusResponse(jobId, JobObject(jobs[jobId]), GetState(jobId))
     IN hook' = [hook EXCEPT !.inflight = Without(hook.inflight, r)
                                (+) SetToBag({[r EXCEPT !.resp = resp]})]
  /\ UNCHANGED <<jobs, created, wait, active, delayed, completed, failed, slot,
                 poller, initiator, http, backoff, shutdown>>

\* Mutant: a terminal status is stored and the timer left running.
ReceiveKeepsTimer(r) ==
  /\ BagIn(r, hook.inflight)
  /\ r.resp # NoResponse
  /\ LET resp == r.resp
         rest == Without(hook.inflight, r)
     IN IF resp.code = 404
        THEN hook' = [hook EXCEPT !.inflight = rest,
                                  !.error = [message |-> "Job not found"]]
        ELSE IF resp.status = "completed" \/ resp.status = "failed"
        THEN hook' = [hook EXCEPT
               !.inflight = rest, !.data = resp, !.error = Null,
               !.isLoading = FALSE,
               !.stopped = hook.stopped \cup {r.effect}]
        ELSE hook' = [hook EXCEPT !.inflight = rest, !.data = resp,
                                  !.error = Null]
  /\ UNCHANGED <<jobs, created, wait, active, delayed, completed, failed, slot,
                 poller, initiator, http, backoff, shutdown>>

\* fetchJobStatus after its awaits, for the request r the hook waits
\* for: 404 sets the error and returns; 200 stores the status and, if it
\* is completed or failed, clears the timer in intervalRef and isLoading.
\* stopped records the effects one of whose requests was answered so.
Receive(r) ==
  /\ BagIn(r, hook.inflight)
  /\ r.resp # NoResponse
  /\ LET resp == r.resp
         rest == Without(hook.inflight, r)
     IN IF resp.code = 404
        THEN hook' = [hook EXCEPT !.inflight = rest,
                                  !.error = [message |-> "Job not found"]]
        ELSE IF resp.status = "completed" \/ resp.status = "failed"
        THEN hook' = [hook EXCEPT
               !.inflight = rest, !.data = resp, !.error = Null,
               !.timers = Cleared(hook.timers, hook.intervalRef),
               !.intervalRef = 0, !.isLoading = FALSE,
               !.stopped = hook.stopped \cup {r.effect}]
        ELSE hook' = [hook EXCEPT !.inflight = rest, !.data = resp,
                                  !.error = Null]
  /\ UNCHANGED <<jobs, created, wait, active, delayed, completed, failed, slot,
                 poller, initiator, http, backoff, shutdown>>

\* fetch rejects for the request r the hook waits for (the server is not
\* reached): the catch block sets the error and clears isLoading.
FetchFails(r) ==
  /\ BagIn(r, hook.inflight)
  /\ r.resp = NoResponse
  /\ hook' = [hook EXCEPT !.inflight = Without(hook.inflight, r),
                          !.error = [message |-> "Failed to fetch"],
                          !.isLoading = FALSE]
  /\ UNCHANGED <<jobs, created, wait, active, delayed, completed, failed, slot,
                 poller, initiator, http, backoff, shutdown>>

\* A step of the queue, the worker or the initiate route.
Disturb == Reset /\ UNCHANGED <<http, hook, backoff, shutdown>>

\* The queue and its worker.
QueueNext ==
  \/ \E file_ids \in QueueLists :
       created < MaxJobs /\ Initiate(file_ids) /\ Disturb
  \/ \E s \in Slots : Claim(s) /\ Disturb
  \/ \E s \in Slots : UpdateProgress(s) /\ Disturb
  \/ \E s \in Slots : CheckFile(s) /\ Disturb
  \/ \E s \in Slots : Return(s) /\ Disturb
  \/ \E s \in Slots : UpdateProgressThrows(s) /\ Disturb
  \/ \E j \in JobIds : Promote(j) /\ Disturb

SpecQueue == Init /\ [][QueueNext]_vars

\* The queue, its worker and a client of the status route.
Next ==
  \/ \E file_ids \in FileIdLists :
       created < MaxPolledJobs /\ Initiate(file_ids) /\ Disturb
  \/ \E s \in Slots : Claim(s) /\ Disturb
  \/ \E s \in Slots : UpdateProgress(s) /\ Disturb
  \/ \E s \in Slots : CheckFile(s) /\ Disturb
  \/ \E s \in Slots : Return(s) /\ Disturb
  \/ \E s \in Slots : UpdateProgressThrows(s) /\ Disturb
  \/ \E j \in JobIds : Promote(j) /\ Disturb
  \/ \E jobId \in PolledIds : PollGetJob(jobId) /\ Disturb
  \/ PollRespond /\ Disturb

Spec == Init /\ [][Next]_vars

\* A step of the status route.
Observe ==
  /\ quiet' = IF quiet < MaxQuiet THEN quiet + 1 ELSE MaxQuiet
  /\ UNCHANGED <<http, hook, backoff, shutdown>>

\* The queue, its worker and a client of the status route, with the steps
\* of the status route since the last step of another kind counted.
QuietNext ==
  \/ \E file_ids \in QueueLists :
       created < MaxPolledJobs /\ Initiate(file_ids) /\ Disturb
  \/ \E s \in Slots : Claim(s) /\ Disturb
  \/ \E s \in Slots : UpdateProgress(s) /\ Disturb
  \/ \E s \in Slots : CheckFile(s) /\ Disturb
  \/ \E s \in Slots : Return(s) /\ Disturb
  \/ \E s \in Slots : UpdateProgressThrows(s) /\ Disturb
  \/ \E j \in JobIds : Promote(j) /\ Disturb
  \/ \E jobId \in PolledIds : PollGetJob(jobId) /\ Observe
  \/ PollRespond /\ Observe

SpecQuiet == Init /\ [][QuietNext]_vars

\* A list of n ids, all 70000.
Repeat(n) == [k \in 1..n |-> 70000]

\* Request bodies: the lists of QueueLists, lists at the limits of the
\* schema, and lists outside each limit.
Bodies ==
  QueueLists \cup
  {<<MinFileId>>, <<MaxFileId>>,
   <<>>, Repeat(MaxFileIds + 1),
   <<MinFileId - 1>>, <<MaxFileId + 1>>, <<70000, MinFileId - 1>>}

\* The initiate route, step by step, with the queue and its worker.
InitiateNext ==
  \/ \E file_ids \in Bodies :
       created < MaxInitiated /\ InitiateAdd(file_ids) /\ Disturb
  \/ InitiateRespond /\ Disturb
  \/ \E file_ids \in Bodies : Reject(file_ids) /\ Disturb
  \/ \E s \in Slots : Claim(s) /\ Disturb
  \/ \E s \in Slots : UpdateProgress(s) /\ Disturb
  \/ \E s \in Slots : CheckFile(s) /\ Disturb
  \/ \E s \in Slots : Return(s) /\ Disturb
  \/ \E s \in Slots : UpdateProgressThrows(s) /\ Disturb
  \/ \E j \in JobIds : Promote(j) /\ Disturb

SpecInitiate == Init /\ [][InitiateNext]_vars

\* Requests for one available file: what a job holds makes no difference
\* to where it is kept.
RestartLists == {<<70000>>}

\* The queue, its worker and a client of the status route, with restarts of
\* the server process.
RestartNext ==
  \/ \E file_ids \in RestartLists :
       created < MaxPolledJobs /\ Initiate(file_ids) /\ Disturb
  \/ \E s \in Slots : Claim(s) /\ Disturb
  \/ \E s \in Slots : UpdateProgress(s) /\ Disturb
  \/ \E s \in Slots : CheckFile(s) /\ Disturb
  \/ \E s \in Slots : Return(s) /\ Disturb
  \/ \E s \in Slots : UpdateProgressThrows(s) /\ Disturb
  \/ \E j \in JobIds : Promote(j) /\ Disturb
  \/ \E jobId \in PolledIds : PollGetJob(jobId) /\ Disturb
  \/ PollRespond /\ Disturb
  \/ Restart /\ Disturb
  \/ \E j \in JobIds : RecoverStalled(j) /\ Disturb

SpecRestart == Init /\ [][RestartNext]_vars

\* What a worker slot does next of its own accord: take a job, publish
\* progress, check an item, return.
SlotStep(s) ==
  (Claim(s) \/ UpdateProgress(s) \/ CheckFile(s) \/ Return(s)) /\ Disturb

\* The lists of FileIdLists, and one whose first item is unavailable and
\* whose last is available.
LiveLists == FileIdLists \cup {<<70001, 70000>>}

\* The queue and its worker, for the behaviours that go on forever.
LiveNext ==
  \/ \E file_ids \in LiveLists :
       created < MaxLiveJobs /\ Initiate(file_ids) /\ Disturb
  \/ \E s \in Slots : Claim(s) /\ Disturb
  \/ \E s \in Slots : UpdateProgress(s) /\ Disturb
  \/ \E s \in Slots : CheckFile(s) /\ Disturb
  \/ \E s \in Slots : Return(s) /\ Disturb
  \/ \E s \in Slots : UpdateProgressThrows(s) /\ Disturb
  \/ \E j \in JobIds : Promote(j) /\ Disturb

\* The queue and its worker where no slot that can step and no retry whose
\* delay has run out is held back forever.
SpecLive ==
  /\ Init
  /\ [][LiveNext]_vars
  /\ \A s \in Slots : WF_vars(SlotStep(s))
  /\ \A j \in JobIds : WF_vars(Promote(j) /\ Disturb)

\* Requests for one available file.
PoolLists == {<<70000>>}

\* The queue and its worker with more jobs than the worker takes at a time.
PoolNext ==
  \/ \E file_ids \in PoolLists :
       created < MaxPoolJobs /\ Initiate(file_ids) /\ Disturb
  \/ \E s \in Slots : Claim(s) /\ Disturb
  \/ \E s \in Slots : UpdateProgress(s) /\ Disturb
  \/ \E s \in Slots : CheckFile(s) /\ Disturb
  \/ \E s \in Slots : Return(s) /\ Disturb

SpecPool == Init /\ [][PoolNext]_vars

\* The queue and its worker, with initiate requests whose id is taken.
DuplicateNext ==
  \/ \E file_ids \in QueueLists :
       created < MaxJobs /\ Initiate(file_ids) /\ Disturb
  \/ \E file_ids \in QueueLists : \E jobId \in PolledIds :
       InitiateExisting(file_ids, jobId) /\ Disturb
  \/ \E s \in Slots : Claim(s) /\ Disturb
  \/ \E s \in Slots : UpdateProgress(s) /\ Disturb
  \/ \E s \in Slots : CheckFile(s) /\ Disturb
  \/ \E s \in Slots : Return(s) /\ Disturb
  \/ \E s \in Slots : UpdateProgressThrows(s) /\ Disturb
  \/ \E j \in JobIds : Promote(j) /\ Disturb

SpecDuplicate == Init /\ [][DuplicateNext]_vars

\* The x-request-id headers clients send: none, an empty one, the one of
\* the end-to-end test, and one that is the first UUID of the server.
SentHeaders == {Undefined, Text(""), Text("test-request-id-12345"), Uuid(1)}
\* S3_BUCKET_NAME: not set, or set.
Buckets == {"", "downloads"}
\* What s3Client.send does: it resolves, or rejects with an error of this
\* name.
Outcomes == {"ok", "NotFound", "AccessDenied", "TimeoutError"}

\* The routes that do not use the queue.
HttpNext ==
  \/ \E sent \in SentHeaders : Root(sent) /\ Reset
  \/ \E sent \in SentHeaders : \E bucket \in Buckets : \E outcome \in Outcomes :
       Health(sent, bucket, outcome) /\ Reset
  \/ \E sent \in SentHeaders : ErrorTest(sent) /\ Reset

SpecHttp == Init /\ [][HttpNext]_vars

\* How a promise settles.
Settlements == {"resolved", "rejected"}

\* The process from the first signal on.
ShutdownNext ==
  \/ \E c \in Signals : Signal(c) /\ Reset
  \/ \E c \in Signals : \E outcome \in Settlements :
       Settle(c, outcome) /\ Reset

SpecShutdown == Init /\ [][ShutdownNext]_vars

\* The file ids sent to the check route.
CheckedIds == {70000, 70001}

\* One download and its worker, next to requests to the check route.
CheckNext ==
  \/ \E file_ids \in QueueLists :
       created < MaxPolledJobs /\ Initiate(file_ids) /\ Disturb
  \/ \E s \in Slots : Claim(s) /\ Disturb
  \/ \E s \in Slots : UpdateProgress(s) /\ Disturb
  \/ \E s \in Slots : CheckFile(s) /\ Disturb
  \/ \E s \in Slots : Return(s) /\ Disturb
  \/ \E sent \in {Undefined, Text("")} : \E bucket \in Buckets :
     \E outcome \in Outcomes : \E file_id \in CheckedIds :
       Check(sent, bucket, outcome, file_id) /\ Reset

SpecCheck == Init /\ [][CheckNext]_vars

\* The jobIds the component gives the hook: none, the id of the job the
\* page has started, and an id the queue holds no job under.
HookJobIds == {0, 1, 2}

\* The one download the page starts, the worker, and the browser that
\* polls with useJobPolling.
HookNext ==
  \/ \E file_ids \in RestartLists :
       created = 0 /\ Initiate(file_ids) /\ Disturb
  \/ \E s \in Slots : Claim(s) /\ Disturb
  \/ \E s \in Slots : UpdateProgress(s) /\ Disturb
  \/ \E s \in Slots : CheckFile(s) /\ Disturb
  \/ \E s \in Slots : Return(s) /\ Disturb
  \/ \E s \in Slots : UpdateProgressThrows(s) /\ Disturb
  \/ \E j \in JobIds : Promote(j) /\ Disturb
  \/ \E jobId \in HookJobIds : SetJobId(jobId) /\ Reset
  \/ \E t \in hook.timers : Tick(t) /\ Reset
  \/ \E r \in BagToSet(hook.inflight) : Serve(r) /\ Reset
  \/ \E r \in BagToSet(hook.inflight) : Receive(r) /\ Reset
  \/ \E r \in BagToSet(hook.inflight) : FetchFails(r) /\ Reset

SpecHook == Init /\ [][HookNext]_vars

\* The queue and its worker with the time of the backoffs.
BackoffNext ==
  \/ \E file_ids \in QueueLists :
       created < MaxPolledJobs /\ Initiate(file_ids) /\ Instant
  \/ \E s \in Slots : Claim(s) /\ Instant
  \/ \E s \in Slots : UpdateProgress(s) /\ Instant
  \/ \E s \in Slots : CheckFile(s) /\ Instant
  \/ \E s \in Slots : Return(s) /\ Instant
  \/ \E s \in Slots : ThrowsAndBacksOff(s) /\ Reset
  \/ Elapse /\ Reset
  \/ \E j \in JobIds : PromoteDue(j) /\ Reset

SpecBackoff == Init /\ [][BackoffNext]_vars

\* The queue and its worker, with locks that run out under running calls.
StallNext ==
  \/ \E file_ids \in QueueLists :
       created < MaxPolledJobs /\ Initiate(file_ids) /\ Disturb
  \/ \E s \in Slots : Claim(s) /\ Disturb
  \/ \E s \in Slots : UpdateProgress(s) /\ Disturb
  \/ \E s \in Slots : CheckFile(s) /\ Disturb
  \/ \E s \in Slots : Return(s) /\ Disturb
  \/ \E s \in Slots : ReturnRejected(s) /\ Disturb
  \/ \E j \in JobIds : LockExpires(j) /\ Disturb

SpecStall == Init /\ [][StallNext]_vars

\* ================================================================== claims
Terminal == {"completed", "failed"}

Busy(s) == slot[s].pc # "idle"

\* A job no worker slot has ever taken.
Untouched(j) == jobs[j] # Absent /\ jobs[j].attemptsStarted = 0

\* C1: at most one worker slot is processing a given job: two busy slots
\* never hold the same job, and a job a slot holds is in the active list and
\* no longer in the wait list, where another slot could take it.
C1_OneSlotPerJob ==
  /\ \A s, t \in Slots : (s # t /\ Busy(s) /\ Busy(t)) => slot[s].job # slot[t].job
  /\ \A s \in Slots : Busy(s) => (slot[s].job \in active /\ slot[s].job \notin Range(wait))

\* Two slots are busy at once, each on a job of its own.
C1_Witness ==
  \E s, t \in Slots : s # t /\ Busy(s) /\ Busy(t) /\ slot[s].job # slot[t].job

\* C2: a job is finalized once: a job that is completed or failed keeps its
\* state and its result in every later step, or is deleted as a whole.
C2_FinalizedOnce ==
  [][\A j \in JobIds :
       GetState(j) \in Terminal =>
         \/ jobs'[j] = Absent /\ GetState(j)' = "unknown"
         \/ /\ jobs'[j] # Absent
            /\ jobs'[j].returnvalue = jobs[j].returnvalue
            /\ GetState(j)' = GetState(j)]_vars

\* A finished job is still there after another finished job was deleted by
\* retention.
C2_Witness ==
  \E j, k \in JobIds :
    /\ GetState(j) \in Terminal
    /\ k <= created /\ jobs[k] = Absent

\* C8: the result written for a job of n items has
\* successCount + failedCount = n = totalFiles.
C8_CountsAddUp ==
  \A j \in JobIds :
    (jobs[j] # Absent /\ jobs[j].returnvalue # Null) =>
       LET r == jobs[j].returnvalue
           n == Len(jobs[j].data)
       IN r.successCount + r.failedCount = n /\ r.totalFiles = n

\* A result was written by the third attempt of a job with available and
\* unavailable files.
C8_Witness ==
  \E j \in JobIds :
    /\ jobs[j] # Absent /\ jobs[j].returnvalue # Null
    /\ jobs[j].attemptsMade = Attempts
    /\ jobs[j].returnvalue.successCount > 0
    /\ jobs[j].returnvalue.failedCount > 0

\* The reference computation of a job's result with the mock checker.
DivisibleBy7(fileId) == fileId % 7 = 0

RefAvailable(file_ids) == SelectSeq(file_ids, DivisibleBy7)

RefUrls(file_ids) ==
  [k \in 1..Len(RefAvailable(file_ids)) |-> DownloadUrl(RefAvailable(file_ids)[k])]

\* C9: the result of a job equals the reference computation over its item
\* list: successCount counts the ids divisible by 7, failedCount the others,
\* downloadUrls holds one URL per available id in item order (none are
\* listed when no id is available), and a job with an available id is
\* reported completed.
C9_ResultIsReference ==
  \A j \in JobIds :
    (jobs[j] # Absent /\ jobs[j].returnvalue # Null) =>
       LET r == jobs[j].returnvalue
           ok == RefAvailable(jobs[j].data)
       IN /\ r.successCount = Len(ok)
          /\ r.failedCount = Len(jobs[j].data) - Len(ok)
          /\ r.downloadUrls = IF Len(ok) > 0 THEN RefUrls(jobs[j].data) ELSE Undefined
          /\ Len(ok) > 0 => MapState(GetState(j)) = "completed"

\* The job [70000, 70007, 70014] has its result: 3 successes, 0 failures,
\* three URLs, status completed.
C9_Witness ==
  \E j \in JobIds :
    /\ jobs[j] # Absent /\ jobs[j].data = <<70000, 70007, 70014>>
    /\ jobs[j].returnvalue # Null
    /\ jobs[j].returnvalue.successCount = 3
    /\ jobs[j].returnvalue.failedCount = 0
    /\ Len(jobs[j].returnvalue.downloadUrls) = 3
    /\ MapState(GetState(j)) = "completed"

\* The last answer of the status route to the client.
Resp == poller.resp

\* The client receives the answer to a poll of the job its previous answer
\* was about.
NextPollOfSameJob ==
  /\ poller.pc = "gotJob" /\ poller'.pc = "idle"
  /\ Resp.code = 200 /\ Resp.jobId = Resp'.jobId

\* C3: the progress values of successive polls of one job do not decrease
\* until a poll reports a terminal status.
C3_PollProgressMonotone ==
  [][(NextPollOfSameJob /\ Resp.status \notin Terminal)
       => Resp'.progress >= Resp.progress]_vars

\* C4: a poll response with a terminal status reports progress 100.
C4_TerminalProgress100 ==
  (Resp.code = 200 /\ Resp.status \in Terminal) => Resp.progress = 100

\* C5: the result of a poll response is present exactly when its status is
\* terminal.
C5_ResultIffTerminal ==
  Resp.code = 200 => ((Resp.status \in Terminal) <=> (Resp.result # Null))

\* C6: a poll of a job no worker slot has taken since it was initiated
\* answers queued, progress 0, result null.
C6_FreshJobIsQueued ==
  (Resp.code = 200 /\ Untouched(Resp.jobId)) =>
     /\ Resp.status = "queued"
     /\ Resp.progress = 0
     /\ Resp.result = Null
     /\ Resp.totalFiles = Len(jobs[Resp.jobId].data)

\* The status route has answered a poll of a job that is still untouched.
C6_Witness ==
  /\ Resp.code = 200 /\ Untouched(Resp.jobId)
  /\ poller.pc = "idle"

\* C7: a poll response with status queued reports progress 0 and result
\* null.
C7_QueuedIsFresh ==
  (Resp.code = 200 /\ Resp.status = "queued") =>
     (Resp.progress = 0 /\ Resp.result = Null)

\* C10: a poll response that carries the result of a job with no available
\* item has status failed, successCount 0 and failedCount the number of
\* items.
C10_NoneAvailableFails ==
  (/\ Resp.code = 200 /\ Resp.status \in Terminal /\ Resp.result # Null
   /\ jobs[Resp.jobId] # Absent
   /\ RefAvailable(jobs[Resp.jobId].data) = <<>>) =>
     /\ Resp.status = "failed"
     /\ Resp.result.successCount = 0
     /\ Resp.result.failedCount = Len(jobs[Resp.jobId].data)

\* ---------------------------------------------------------------------- C11
SomeAvailable(file_ids) == \E k \in 1..Len(file_ids) : Available(file_ids[k])

\* The number of unavailable items among the first n of file_ids.
Unavailable(file_ids, n) == Cardinality({k \in 1..n : ~Available(file_ids[k])})

\* The error of an attempt that job.updateProgress ended.
Rejected == [message |-> "updateProgress rejected"]

\* No attempt of job j has thrown so far.
NeverThrew(j) == jobs[j].failedReason = Null

C13_FailedPollHasResult ==
  (Resp.code = 200 /\ Resp.status = "failed")
    => /\ Resp.result # Null
       /\ "message" \in DOMAIN Resp.result

\* ---------------------------------------------------------------------- C14
\* The job records and every list, set and slot of the queue.
queue == <<jobs, created, wait, active, delayed, completed, failed, slot>>

\* C14: a poll of an id for which no job was ever created answers 404 at
\* once and changes nothing in the queue.
C14_UnknownIdIs404 ==
  [][(poller.pc = "idle" /\ poller' # poller /\ poller'.jobId > created)
       => /\ poller'.pc = "idle"
          /\ poller'.resp = NotFoundResponse(poller'.jobId)
          /\ poller'.resp.code = 404
          /\ UNCHANGED queue]_vars

\* An id no job was created for has been polled and answered 404.
C14_Witness ==
  /\ Resp.code = 404
  /\ Resp.jobId > created
  /\ created > 0

\* ---------------------------------------------------------------------- C15
\* A step of the status route: only these change the poller.
PollStep == poller' # poller

\* The step ends a poll of the job whose response is the last one sent, and
\* that poll and the one before it ran with no other step in between or
\* during either: the three steps before this one were getJob and getState
\* of the poll before and getJob of this one.
SecondQuietPoll ==
  /\ poller.pc = "gotJob"
  /\ poller'.pc = "idle"
  /\ quiet = MaxQuiet
  /\ Resp.code = 200
  /\ Resp.jobId = poller.jobId

\* C15: polling is read-only and idempotent.  A step of the status route
\* leaves every job record, list, set and slot of the queue unchanged; a
\* poll that follows a poll of the same job with no worker or retention
\* step in between or during them returns the same response; and a job
\* found by a poll is found by the next one when nothing else has stepped.
C15_PollReadOnlyIdempotent ==
  [][/\ PollStep => UNCHANGED queue
     /\ SecondQuietPoll => poller'.resp = Resp
     /\ (poller.pc = "idle" /\ PollStep /\ quiet >= 2 /\ Resp.code = 200
           /\ poller'.jobId = Resp.jobId)
          => poller'.pc = "gotJob"]_vars

\* A finished job has been polled twice in a row with nothing in between.
C15_Witness ==
  /\ quiet = MaxQuiet
  /\ poller.pc = "gotJob"
  /\ Resp.code = 200
  /\ Resp.jobId = poller.jobId
  /\ Resp.status \in Terminal
  /\ Resp.result # Null

\* ---------------------------------------------------------------------- C16
\* The last response of the initiate route.
InitResp == initiator.resp

\* C16: the initiate route answers a valid request with a jobId no job was
\* created under before, status queued and totalFileIds equal to the number
\* of ids submitted; the ids a job was created with never change; and every
\* poll that finds the job reports that number as totalFiles.
C16_TotalFilesIsSubmittedCount ==
  [][/\ created' # created
          => /\ InitResp'.code = 200
             /\ InitResp'.status = "queued"
             /\ InitResp'.jobId \notin 1..created
             /\ jobs[InitResp'.jobId] = Absent
             /\ jobs'[InitResp'.jobId] # Absent
             /\ InitResp'.totalFileIds = Len(jobs'[InitResp'.jobId].data)
     /\ \A j \in JobIds :
          (jobs[j] # Absent /\ jobs'[j] # Absent) => jobs'[j].data = jobs[j].data
     /\ (Resp'.code = 200 /\ jobs'[Resp'.jobId] # Absent)
          => Resp'.totalFiles = Len(jobs'[Resp'.jobId].data)
     /\ (Resp'.code = 200 /\ InitResp'.code = 200 /\ Resp'.jobId = InitResp'.jobId)
          => Resp'.totalFiles = InitResp'.totalFileIds]_vars

\* A job submitted with two ids has been polled after it finished, and the
\* poll reports the count the initiate route answered.
C16_Witness ==
  /\ InitResp.code = 200
  /\ InitResp.totalFileIds = 2
  /\ Resp.code = 200
  /\ Resp.jobId = InitResp.jobId
  /\ Resp.status \in Terminal
  /\ Resp.totalFiles = 2

OutOfSchema(file_ids) ==
  \/ Len(file_ids) = 0
  \/ Len(file_ids) > MaxFileIds
  \/ \E k \in 1..Len(file_ids) : file_ids[k] < MinFileId \/ file_ids[k] > MaxFileId

\* C18: a request whose file_ids is out of the schema is answered 400 and
\* creates no job: the step that handles it leaves the queue unchanged, no
\* 200 response is sent for such a body, and no job holds such a list.
C18_InvalidBodyRejected ==
  [][/\ (initiator' # initiator /\ OutOfSchema(initiator'.file_ids))
          => /\ initiator'.pc = "idle"
             /\ InitResp'.code = 400
             /\ UNCHANGED queue
     /\ \A j \in JobIds : jobs'[j] # Absent => ~OutOfSchema(jobs'[j].data)
     /\ InitResp'.code = 200 => ~OutOfSchema(initiator'.file_ids)]_vars

\* A request with more than MaxFileIds ids has been answered 400 after a job
\* was created, and the job is still there.
C18_Witness ==
  /\ InitResp.code = 400
  /\ Len(initiator.file_ids) > MaxFileIds
  /\ created > 0
  /\ jobs[created] # Absent

\* ---------------------------------------------------------------------- C19
\* C19: an accepted job is not lost before it is terminal, restarts of the
\* server process included.  A job record is deleted only when the job is
\* completed or failed; a job that is not terminal is waiting, active or
\* delayed; a poll answers 404 only for an id with no record, and a poll of
\* an id with a record finds the job.
C19_NotLostBeforeTerminal ==
  [][/\ \A j \in JobIds :
          (jobs[j] # Absent /\ jobs'[j] = Absent) => GetState(j) \in Terminal
     /\ \A j \in JobIds :
          jobs'[j] # Absent
            => GetState(j)' \in {"waiting", "active", "delayed", "completed", "failed"}
     /\ (Resp' # Resp /\ Resp'.code = 404) => jobs[Resp'.jobId] = Absent
     /\ (poller.pc = "idle" /\ PollStep /\ jobs[poller'.jobId] # Absent)
          => poller'.pc = "gotJob"
     /\ (poller.pc = "gotJob" /\ poller'.resp # poller.resp)
          => Resp'.code = 200]_vars

\* A job that was being processed when the server process stopped is back in
\* the wait list, and a poll made since the restart has found it.
C19_Witness ==
  /\ poller.pc = "gotJob"
  /\ jobs[poller.jobId] # Absent
  /\ jobs[poller.jobId].stalledCounter > 0
  /\ GetState(poller.jobId) = "waiting"

\* ---------------------------------------------------------------------- C20
\* C20: under fair scheduling of the worker slots every accepted job
\* eventually reaches a terminal state, completed or failed.
C20_EveryJobTerminates ==
  \A j \in JobIds : (jobs[j] # Absent) ~> (GetState(j) \in Terminal)

\* A job whose first two attempts have thrown has completed.
C20_Witness ==
  \E j \in JobIds :
    /\ jobs[j] # Absent
    /\ jobs[j].attemptsMade = Attempts
    /\ GetState(j) = "completed"

\* ---------------------------------------------------------------------- C21
\* The jobs the worker slots hold.
Held == {slot[s].job : s \in {t \in DOMAIN slot : Busy(t)}}

\* C21: at most Concurrency jobs are active at any time, however many are
\* queued: the active jobs are the jobs the worker's calls hold, one each.
C21_AtMostFiveActive ==
  /\ Cardinality(active) <= Concurrency
  /\ active = Held

\* Concurrency jobs are active and a further job is waiting.
C21_Witness ==
  /\ Cardinality(active) = Concurrency
  /\ wait # <<>>

\* ---------------------------------------------------------------------- C22
\* A finished set of n jobs, oldest first, named by their position.
Finished(n) == [k \in 1..n |-> k]

\* Sizes of a finished set around the count kept, the job just finished
\* included, and numbers of its oldest members that have passed the age.
RetainSizes(count) == {1, 2, count - 1, count, count + 1, count + 2}
RetainGone == 0..2

\* The k-th oldest of n finished jobs has at least `count` newer ones.
AtLeastNewer(n, k, count) == n - k >= count

\* The k-th oldest of n finished jobs has more than `count` newer ones.
MoreThanNewer(n, k, count) == n - k > count

\* Retention of a finished set with the given count, as C22 states it: a
\* job is dropped only if it passed the age or has more than `count` newer
\* jobs in the set.
DroppedOnlyBeyondCount(count) ==
  \A n \in RetainSizes(count) : \A gone \in RetainGone :
    gone <= n =>
      LET after == Retain(Finished(n), gone, count)
      IN \A k \in 1..n :
           k \notin Range(after) => (k <= gone \/ MoreThanNewer(n, k, count))

\* Retention of a finished set with the given count: exactly the jobs that
\* passed the age or have at least `count` newer jobs in the set are
\* dropped, and at most `count` jobs are left.
DroppedExactlyFromCount(count) ==
  \A n \in RetainSizes(count) : \A gone \in RetainGone :
    gone <= n =>
      LET after == Retain(Finished(n), gone, count)
      IN /\ Len(after) <= count
         /\ \A k \in 1..n :
              k \notin Range(after) <=> (k <= gone \/ AtLeastNewer(n, k, count))

RetentionAsStated ==
  DroppedOnlyBeyondCount(KeepCompleted) /\ DroppedOnlyBeyondCount(KeepFailed)

RetentionByCountAndAge ==
  DroppedExactlyFromCount(KeepCompleted) /\ DroppedExactlyFromCount(KeepFailed)

C23_ClaimedInCreationOrder ==
  /\ \A a, b \in JobIds :
       (a < b /\ b <= created /\ a \in Range(wait) /\ Untouched(a))
         => Untouched(b)
  /\ \A m, n \in 1..Len(wait) :
       (m < n /\ Untouched(wait[m]) /\ Untouched(wait[n])) => wait[m] < wait[n]

\* The earlier of two jobs that waited has been taken by a slot, and the
\* later one is still waiting.
C23_Witness ==
  \E a, b \in JobIds :
    /\ a < b
    /\ jobs[a] # Absent
    /\ jobs[a].attemptsStarted = 1
    /\ a \in active
    /\ b \in Range(wait)
    /\ Untouched(b)

\* The place of a reported status in the order queued, processing, terminal.
StatusRank(status) ==
  CASE status = "queued" -> 0
    [] status = "processing" -> 1
    [] OTHER -> 2

\* C24: the statuses of successive polls of one job only move forward through
\* queued, processing, completed or failed: no poll reports queued after one
\* reported processing, and none reports a non-terminal status after a
\* terminal one.
C24_PollStatusForward ==
  [][NextPollOfSameJob => StatusRank(Resp'.status) >= StatusRank(Resp.status)]_vars

StorageAnswers ==
  http.bucket = "" \/ http.outcome = "ok" \/ http.outcome = "NotFound"

\* C27: the health route answers 200 with status healthy and storage ok
\* exactly when the storage check succeeds, and 503 with status unhealthy
\* and storage error otherwise; it produces no other combination.
C27_HealthBodyMatchesCode ==
  http.route = "/health" =>
    /\ StorageAnswers =>
         http.resp = [code |-> 200, status |-> "healthy", storage |-> "ok"]
    /\ ~StorageAnswers =>
         http.resp = [code |-> 503, status |-> "unhealthy", storage |-> "error"]

C27_Witness ==
  /\ http.route = "/health" /\ http.resp.code = 503
  /\ http.bucket = "downloads" /\ http.outcome = "AccessDenied"

\* ---------------------------------------------------------------------- C28
\* The ids crypto.randomUUID() has returned to the middleware.
Generated == {Uuid(n) : n \in 1..http.generated}

\* C28: every response carries an x-request-id header; it is the header of
\* the request if the client sent one, and else a UUID generated for this
\* request, which no earlier request was given.
C28_RequestIdEchoedOrFresh ==
  [][(http' # http) =>
       /\ http'.header # Undefined
       /\ http'.sent # Undefined => http'.header = http'.sent
       /\ http'.sent = Undefined =>
            /\ http'.header = Uuid(http'.generated)
            /\ http'.header \notin Generated]_vars

C28_Witness ==
  /\ http.route = "/v1/error/test" /\ http.sent = Undefined
  /\ http.header = Uuid(2)

\* ---------------------------------------------------------------------- C26
\* The hook handles a response that reports a terminal status.
ReceivesTerminal ==
  \E r \in BagToSet(hook.inflight) :
    /\ r.resp.code = 200
    /\ r.resp.status \in Terminal
    /\ hook' # hook
    /\ hook'.inflight = Without(hook.inflight, r)

\* C26: when the hook has handled a poll response with status completed or
\* failed, its interval timer is cleared (the ref is null and no timer of
\* the browser is left), and no timer is ever left to an effect one of
\* whose polls was answered so, so that it issues no further poll.
C26_PollingStopsAtTerminal ==
  [][/\ ReceivesTerminal => (hook'.intervalRef = 0 /\ hook'.timers = {})
     /\ \A t \in hook'.timers : t.id \notin hook'.stopped]_vars

C26_Witness ==
  /\ hook.data # Null /\ hook.data.status = "completed"
  /\ hook.jobId = 1 /\ hook.effects = 1 /\ hook.stopped = {1}
  /\ hook.timers = {} /\ hook.inflight # EmptyBag

\* ---------------------------------------------------------------------- C29
\* C29: while a slot processes a job of n items, the progress the job
\* publishes is floor(k/n*100), where k is the number of items the current
\* attempt has checked and counted; it is 100 only when all n are.
C29_ProgressCountsCheckedItems ==
  \A s \in Slots :
    Busy(s) =>
      LET j == slot[s].job
          n == Len(jobs[j].data)
          k == slot[s].successCount + slot[s].failedCount
      IN /\ jobs[j].progress = (k * 100) \div n
         /\ jobs[j].progress = 100 => k = n

\* ---------------------------------------------------------------------- C30
\* C30: the progress and the result of a job are written only by the call
\* that holds its lock: a step of a call that has lost the lock (the lock
\* ran out, the job was put back or taken by another slot) changes neither.
C30_OnlyOwnerWrites ==
  [][\A s \in Slots :
       (Busy(s) /\ ~Owns(slot[s], active, jobs) /\ slot'[s] # slot[s]) =>
         /\ jobs'[slot[s].job].progress = jobs[slot[s].job].progress
         /\ jobs'[slot[s].job].returnvalue = jobs[slot[s].job].returnvalue]_vars

\* ---------------------------------------------------------------------- C31
\* C31: every attempt of a job starts at the first item with successCount,
\* failedCount and downloadUrls empty, and what a call has counted is the
\* outcome of the items it has checked itself, the first i of the list in
\* list order: nothing of an earlier attempt is counted.
C31_AttemptsStartAfresh ==
  [][\A s \in Slots :
       /\ (slot[s].pc = "idle" /\ slot'[s].pc # "idle") =>
            /\ slot'[s].i = 0
            /\ slot'[s].successCount = 0 /\ slot'[s].failedCount = 0
            /\ slot'[s].downloadUrls = <<>>
       /\ slot'[s].pc # "idle" =>
            LET sl == slot'[s]
                checked == SubSeq(jobs'[sl.job].data, 1, sl.i)
            IN /\ sl.successCount = Len(RefAvailable(checked))
               /\ sl.failedCount = sl.i - Len(RefAvailable(checked))
               /\ sl.downloadUrls = RefUrls(checked)]_vars

\* A second or later attempt of a job of two items has checked the first.
C31_Witness ==
  \E s \in Slots :
    /\ Busy(s) /\ slot[s].token > 1 /\ slot[s].i = 1
    /\ Len(jobs[slot[s].job].data) = 2
    /\ jobs[slot[s].job].attemptsMade >= 1

\* ---------------------------------------------------------------------- C32
\* C32: the delay a job is given before its retry k (k = 1, 2: after its
\* k-th failed attempt) is 2000 * 2^(k-1) ms, and a job with a failed
\* attempt is not taken by a slot before that much time has passed since
\* the attempt failed.
C32_BackoffDoubles ==
  [][\A j \in JobIds :
       /\ (j \notin delayed /\ j \in delayed') =>
            /\ jobs'[j].attemptsMade \in {1, 2}
            /\ backoff'[j].left = 2000 * 2^(jobs'[j].attemptsMade - 1)
       /\ (j \notin active /\ j \in active' /\ jobs[j].attemptsMade >= 1) =>
            backoff[j].waited >= 2000 * 2^(jobs[j].attemptsMade - 1)]_vars

\* The third attempt of a job is under way, 4000 ms after the second failed.
C32_Witness ==
  \E j \in JobIds :
    /\ j \in active /\ jobs[j] # Absent /\ jobs[j].attemptsMade = 2
    /\ backoff[j].waited = 4000 /\ backoff[j].left = 0

\* Whether the worker in slot s has counted file id f as a success.
CountedSuccess(s, f) == DownloadUrl(f) \in Range(slot[s].downloadUrls)

\* Whether the worker in slot s has checked file id f in this attempt.
HasChecked(s, f) ==
  /\ Busy(s)
  /\ f \in Range(SubSeq(jobs[slot[s].job].data, 1, slot[s].i))

\* C33: the worker counts an item as a success exactly when
\* checkS3Availability reports it available, for every file id and every
\* configuration (mock mode and configured bucket): whenever the check
\* route has answered for a file id a worker has checked, the two agree.
C33_WorkerAgreesWithCheck ==
  \A s \in Slots :
    (/\ http.route = "/v1/download/check"
     /\ HasChecked(s, http.resp.file_id))
      => (CountedSuccess(s, http.resp.file_id) <=> http.resp.available)

\* Whether a is a prefix of b.
IsPrefix(a, b) == Len(a) <= Len(b) /\ a = SubSeq(b, 1, Len(a))

\* C34: graceful shutdown closes things in a fixed order and does not skip
\* the queue: the HTTP server first, then the OpenTelemetry SDK, and after
\* that has settled, resolved or rejected, the worker before the queue, the
\* queue before the Redis connection, and the S3 client last.
C34_ShutdownOrder ==
  /\ IsPrefix(shutdown.log, <<"server", "otel", "worker", "queue", "redis", "s3">>)
  /\ \A c \in Signals :
       shutdown.chain[c] = Done =>
         shutdown.log = <<"server", "otel", "worker", "queue", "redis", "s3">>

C34_Witness ==
  /\ shutdown.otel = "rejected"
  /\ shutdown.log = <<"server", "otel", "worker", "queue", "redis", "s3">>
  /\ \E c \in Signals : shutdown.chain[c] = Done

\* ---------------------------------------------------------------------- C35
\* C35: once the hook has stored a terminal status of a job, its data never
\* goes back to a status of that job that is not terminal, whatever the
\* order in which the responses of the polls on their way arrive.
C35_TerminalDataStays ==
  [][(/\ hook.data # Null
      /\ hook.data.status \in Terminal
      /\ hook'.data # Null
      /\ hook'.data.jobId = hook.data.jobId)
       => hook'.data.status \in Terminal]_vars

\* ---------------------------------------------------------------------- C36
\* C36: the data the hook returns belongs to the jobId it is given: without
\* a jobId there is no data, and with one the data, if any, is a status of
\* that job, never one kept from or answered late for an earlier jobId.
C36_DataOfCurrentJob ==
  hook.data # Null => (hook.jobId # 0 /\ hook.data.jobId = hook.jobId)

\* ---------------------------------------------------------------------- C37
\* C37: the hook has at most one interval timer running at any time, the
\* one in intervalRef: when jobId changes the timer of the earlier effect
\* is cleared before the next one is started.
C37_OneTimer ==
  /\ Cardinality(hook.timers) <= 1
  /\ \A t \in hook.timers : t.id = hook.intervalRef /\ t.jobId = hook.jobId

C37_Witness ==
  /\ hook.effects = 2 /\ hook.jobId = 1
  /\ hook.timers = {[id |-> 2, jobId |-> 1]}
  /\ \E r \in BagToSet(hook.inflight) : r.effect = 1

\* ---------------------------------------------------------------------- C38
\* The hook handles a 404 response to a poll for the jobId it is given.
ReceivesNotFound ==
  \E r \in BagToSet(hook.inflight) :
    /\ r.resp.code = 404
    /\ r.jobId = hook.jobId
    /\ hook' # hook
    /\ hook'.inflight = Without(hook.inflight, r)

\* C38: when a poll for the jobId is answered 404, the hook sets the error
\* Job not found and stops polling: no timer is left that would issue a
\* further request for that jobId.
C38_StopsAtNotFound ==
  [][ReceivesNotFound =>
       /\ hook'.error = [message |-> "Job not found"]
       /\ \A t \in hook'.timers : t.jobId # hook.jobId]_vars

====
